---- MODULE Spec2Model ----
(***************************************************************************)
(* Encounter classification and CPA/TCPA risk assessment of colregs_core.  *)
(*                                                                         *)
(* Units.  Positions are integer metres, speeds integer m/s.  Angles are   *)
(* integers in tenths of a degree (112.5 deg is 1125, a full turn 3600).   *)
(* A square root is kept exactly as the rational under the root:           *)
(* [n |-> a, d |-> b] stands for sqrt(a / b); a time is the rational       *)
(* n / d, or +infinity.  The angles handed to normalize_angle and          *)
(* normalize_angle_360 directly are floating-point angles (see Float).     *)
(*                                                                         *)
(* State.  safe_distance and thresholds are the configuration of the       *)
(* classifier and the assessor; call and result are the call in progress   *)
(* and what it returns; prev is the call before it when a function is      *)
(* applied to its own result; remembered is a call a caller has kept, with *)
(* its result, to make it again later; env is the simulation environment  *)
(* with its two ships, once one has been set up.                           *)
(***************************************************************************)
EXTENDS Integers, Sequences, FiniteSets, TLC

VARIABLES safe_distance, thresholds, call, result, prev, remembered, env

vars == <<safe_distance, thresholds, call, result, prev, remembered, env>>

(***************************************************************************)
(* Bounds of the inputs.                                                   *)
(***************************************************************************)
MaxGridClassify == 3
MaxGridAssess == 15
MaxGridCpa == 4
MaxTurns == 2

Abs(x) == IF x < 0 THEN -x ELSE x

(***************************************************************************)
(* Exact reals: sqrt(n / d) with n >= 0, d > 0.                            *)
(***************************************************************************)
Root(a, b) == [n |-> a, d |-> b]

\* sqrt(n/d) < k  for an integer k >= 0
RootLt(x, k) == (x.n \div x.d) < k * k

\* sqrt(n/d) > k  for an integer k >= 0
RootGt(x, k) ==
    \/ (x.n \div x.d) > k * k
    \/ (x.n \div x.d) = k * k /\ (x.n % x.d) # 0

\* sqrt(n/d) = k  for an integer k >= 0
RootEq(x, k) == (x.n \div x.d) = k * k /\ (x.n % x.d) = 0

RootGe(x, k) == ~RootLt(x, k)
RootLe(x, k) == ~RootGt(x, k)

RECURSIVE GCD(_, _)
GCD(a, b) == IF b = 0 THEN a ELSE GCD(b, a % b)

\* sqrt(c * c / q) for q > 0, the common factor of c and q taken out before
\* the square is formed
RootOfSquareOver(c, q) ==
    LET g == GCD(Abs(c), q)
    IN  Root(Abs(c) * (Abs(c) \div g), q \div g)

\* times: a rational n / d (d > 0) or +infinity
Time(a, b) == [inf |-> FALSE, n |-> a, d |-> b]
Infinity == [inf |-> TRUE, n |-> 0, d |-> 1]

\* time a is strictly before time b
TimeBefore(a, b) == ~a.inf /\ (b.inf \/ a.n * b.d < b.n * a.d)

TimeLt(t, k) == ~t.inf /\ t.n < k * t.d
TimeGe(t, k) == t.inf \/ t.n >= k * t.d
TimeNeg(t) == ~t.inf /\ t.n < 0

(***************************************************************************)
(* geometry/bearings.py                                                    *)
(***************************************************************************)
HALF_TURN == 1800
FULL_TURN == 3600

normalize_angle(angle) == ((angle + HALF_TURN) % FULL_TURN) - HALF_TURN

\* faulty variant: reduced into [-180, 180) like normalize_angle
normalize_angle_360_signed(angle) ==
    ((angle + HALF_TURN) % FULL_TURN) - HALF_TURN

normalize_angle_360(angle) == angle % FULL_TURN

\* Floating-point angles.  [deg |-> t, eps |-> e] is t tenths of a degree
\* plus e times a residue below half the spacing of the floats next to 180
\* and 360 (1e-20, say), e in {-1, 0, 1}.  Only 0 can carry the residue: a
\* float of a tenth of a degree or more absorbs it when the sum is rounded.
Float(deg, eps) == [deg |-> deg, eps |-> IF deg = 0 THEN eps ELSE 0]
Exact(deg) == Float(deg, 0)

FloatNegative(a) == a.deg < 0 \/ (a.deg = 0 /\ a.eps < 0)

\* a + tenths, rounded
FloatAdd(a, tenths) == Float(a.deg + tenths, a.eps)

\* a % m for m > 0 as Python computes it on floats: the remainder of fmod,
\* which is exact and has the sign of a, and m added to it when it is negative
FloatMod(a, m) ==
    LET fmod == Float(IF a.deg >= 0 THEN a.deg % m ELSE -((-a.deg) % m), a.eps)
    IN  IF FloatNegative(fmod) THEN FloatAdd(fmod, m) ELSE fmod

\* normalize_angle and normalize_angle_360 on floating-point angles; on an
\* angle without residue they are Exact(normalize_angle(deg)) and
\* Exact(normalize_angle_360(deg))
normalize_angle_float(angle) ==
    FloatAdd(FloatMod(FloatAdd(angle, HALF_TURN), FULL_TURN), -HALF_TURN)

normalize_angle_360_float(angle) == FloatMod(angle, FULL_TURN)

OnCompass(dx, dy) == dx = 0 \/ dy = 0 \/ Abs(dx) = Abs(dy)

\* faulty variant: arctan of the quotient dx / dy, which loses the quadrant
ArcTan2Deg_no_quadrant(dx, dy) ==
    CASE dx = 0 -> 0
      [] dx > 0 /\ dy = 0 -> 900
      [] dx < 0 /\ dy = 0 -> -900
      [] dx # 0 /\ dy = dx -> 450
      [] dx # 0 /\ dy = -dx -> -450

\* np.degrees(np.arctan2(dx, dy)) in (-180, 180], on the displacements whose
\* bearing is a whole multiple of 45 degrees (and arctan2(0, 0) = 0).
ArcTan2Deg(dx, dy) ==
    CASE dx = 0 /\ dy >= 0 -> 0
      [] dx = 0 /\ dy < 0 -> 1800
      [] dx > 0 /\ dy = 0 -> 900
      [] dx < 0 /\ dy = 0 -> -900
      [] dx > 0 /\ dy = dx -> 450
      [] dx > 0 /\ dy = -dx -> 1350
      [] dx < 0 /\ dy = -dx -> -450
      [] dx < 0 /\ dy = dx -> -1350

\* faulty variant: arctan2 taken with its arguments in the mathematical order (dy, dx)
calculate_relative_bearing_swapped(os_position, os_heading, ts_position) ==
    LET dx == ts_position[1] - os_position[1]
        dy == ts_position[2] - os_position[2]
        absolute_bearing == ArcTan2Deg(dy, dx)
        relative_bearing == absolute_bearing - os_heading
    IN  (relative_bearing % FULL_TURN)

\* faulty variant: the own-ship heading added to the absolute bearing
calculate_relative_bearing_added(os_position, os_heading, ts_position) ==
    LET dx == ts_position[1] - os_position[1]
        dy == ts_position[2] - os_position[2]
        absolute_bearing == ArcTan2Deg(dx, dy)
        relative_bearing == absolute_bearing + os_heading
    IN  (relative_bearing % FULL_TURN)

calculate_relative_bearing(os_position, os_heading, ts_position) ==
    LET dx == ts_position[1] - os_position[1]
        dy == ts_position[2] - os_position[2]
        absolute_bearing == ArcTan2Deg(dx, dy)
        relative_bearing == absolute_bearing - os_heading
    IN  normalize_angle_360(relative_bearing)

\* faulty variant: dy taken from the x coordinate of pos2
calculate_distance_index_slip(pos1, pos2) ==
    LET dx == pos2[1] - pos1[1]
        dy == pos2[1] - pos1[2]
    IN  Root(dx * dx + dy * dy, 1)

calculate_distance(pos1, pos2) ==
    LET dx == pos2[1] - pos1[1]
        dy == pos2[2] - pos1[2]
    IN  Root(dx * dx + dy * dy, 1)

\* faulty variant: the velocity of OS relative to TS
calculate_relative_velocity_reversed(os_velocity, ts_velocity) ==
    <<os_velocity[1] - ts_velocity[1], os_velocity[2] - ts_velocity[2]>>

\* faulty variant: the two velocities added
calculate_relative_velocity_added(os_velocity, ts_velocity) ==
    <<ts_velocity[1] + os_velocity[1], ts_velocity[2] + os_velocity[2]>>

calculate_relative_velocity(os_velocity, ts_velocity) ==
    <<ts_velocity[1] - os_velocity[1], ts_velocity[2] - os_velocity[2]>>

\* np.sin / np.cos of np.radians(heading) on the cardinal headings, as the
\* exact values (the floating-point residue of about 1e-16 is left out)
Cardinal == {0, 900, 1800, 2700}
SinDeg(heading) ==
    CASE heading = 0 -> 0 [] heading = 900 -> 1
      [] heading = 1800 -> 0 [] heading = 2700 -> -1
CosDeg(heading) ==
    CASE heading = 0 -> 1 [] heading = 900 -> 0
      [] heading = 1800 -> -1 [] heading = 2700 -> 0

\* faulty variant: sine and cosine exchanged
heading_to_velocity_swapped(heading, speed) ==
    LET vx == speed * CosDeg(heading)
        vy == speed * SinDeg(heading)
    IN  <<vx, vy>>

heading_to_velocity(heading, speed) ==
    LET vx == speed * SinDeg(heading)
        vy == speed * CosDeg(heading)
    IN  <<vx, vy>>

\* arctan2 is taken on the velocities whose direction is a whole multiple of
\* 45 degrees; the speed is the exact root
velocity_to_heading_speed(velocity) ==
    LET vx == velocity[1]
        vy == velocity[2]
        speed == Root(vx * vx + vy * vy, 1)
        heading == ArcTan2Deg(vx, vy)
    IN  <<normalize_angle_360(heading), speed>>

calculate_aspect_angle(ts_heading, os_position, ts_position) ==
    LET dx == os_position[1] - ts_position[1]
        dy == os_position[2] - ts_position[2]
        absolute_bearing == ArcTan2Deg(dx, dy)
        aspect == absolute_bearing - ts_heading
    IN  normalize_angle_360(aspect)

\* faulty variant: the dot product in place of the cross product
calculate_bearing_rate_dot(os_position, os_velocity, ts_position, ts_velocity) ==
    LET dx == ts_position[1] - os_position[1]
        dy == ts_position[2] - os_position[2]
        range_sq == dx * dx + dy * dy
        dvx == ts_velocity[1] - os_velocity[1]
        dvy == ts_velocity[2] - os_velocity[2]
        cross_product == dx * dvx + dy * dvy
    IN  IF range_sq < 1
        THEN [n |-> 0, d |-> 1]
        ELSE [n |-> 180 * cross_product, d |-> range_sq]

\* faulty variant: no sentinel for coincident ships
calculate_bearing_rate_unguarded(os_position, os_velocity, ts_position, ts_velocity) ==
    LET dx == ts_position[1] - os_position[1]
        dy == ts_position[2] - os_position[2]
        range_sq == dx * dx + dy * dy
        dvx == ts_velocity[1] - os_velocity[1]
        dvy == ts_velocity[2] - os_velocity[2]
        cross_product == dx * dvy - dy * dvx
    IN  [n |-> 180 * cross_product, d |-> range_sq]

\* The rate in deg/s is (180 / pi) * cross_product / range_sq; the record is
\* the rational 180 * cross_product / range_sq, the rate in units of 1/pi deg/s.
\* Squared ranges are integers, so range_sq < 1e-6 exactly when range_sq < 1.
calculate_bearing_rate(os_position, os_velocity, ts_position, ts_velocity) ==
    LET dx == ts_position[1] - os_position[1]
        dy == ts_position[2] - os_position[2]
        range_sq == dx * dx + dy * dy
        dvx == ts_velocity[1] - os_velocity[1]
        dvy == ts_velocity[2] - os_velocity[2]
        cross_product == dx * dvy - dy * dvx
    IN  IF range_sq < 1
        THEN [n |-> 0, d |-> 1]
        ELSE [n |-> 180 * cross_product, d |-> range_sq]

(***************************************************************************)
(* ClosestApproach: calculate_cpa_tcpa                                     *)
(***************************************************************************)
\* r = tsPos - osPos, v = tsVel - osVel.  Velocities are integer vectors, so
\* |v|^2 is below the epsilon exactly when it is below 1.
\* With tcpa = -(r.v)/|v|^2 the separation |r + v*tcpa| is |r x v| / |v|:
\* |r|^2 - (r.v)^2/|v|^2 = (r x v)^2 / |v|^2.
calculate_cpa_tcpa(os_position, os_velocity, ts_position, ts_velocity) ==
    LET rx == ts_position[1] - os_position[1]
        ry == ts_position[2] - os_position[2]
        v == calculate_relative_velocity(os_velocity, ts_velocity)
        v_sq == v[1] * v[1] + v[2] * v[2]
        r_dot_v == rx * v[1] + ry * v[2]
        r_cross_v == rx * v[2] - ry * v[1]
    IN  IF v_sq < 1
        THEN [dcpa |-> Root(rx * rx + ry * ry, 1), tcpa |-> Infinity]
        ELSE [dcpa |-> RootOfSquareOver(r_cross_v, v_sq),
              tcpa |-> Time(-r_dot_v, v_sq)]

(***************************************************************************)
(* EncounterClassifier                                                     *)
(***************************************************************************)
EncounterType ==
    {"SAFE", "HEAD_ON", "CROSSING_GIVE_WAY", "CROSSING_STAND_ON", "OVERTAKING"}

\* sector edges, tenths of a degree
HEAD_ON_BEARING_TOL == 50
HEAD_ON_COURSE_TOL == 100
STARBOARD_MIN == 50
STERN_MIN == 1125
PORT_MIN == 2475
PORT_MAX == 3550

\* half-open sector: lower edge inclusive, upper edge exclusive
InSector(angle, lo, hi) == lo <= angle /\ angle < hi

IsHeadOn(relative_bearing, relative_course) ==
    /\ \/ relative_bearing < HEAD_ON_BEARING_TOL
       \/ relative_bearing > FULL_TURN - HEAD_ON_BEARING_TOL
    /\ Abs(normalize_angle(relative_course - HALF_TURN)) < HEAD_ON_COURSE_TOL

\* stern sector and one vessel faster than the other (the faster vessel is
\* the overtaking one)
IsOvertaking(relative_bearing, os_speed, ts_speed) ==
    /\ InSector(relative_bearing, STERN_MIN, PORT_MIN)
    /\ os_speed # ts_speed

DetermineEncounterType(relative_bearing, relative_course, os_speed, ts_speed) ==
    IF IsHeadOn(relative_bearing, relative_course) THEN "HEAD_ON"
    ELSE IF IsOvertaking(relative_bearing, os_speed, ts_speed) THEN "OVERTAKING"
    ELSE IF InSector(relative_bearing, STARBOARD_MIN, STERN_MIN)
         THEN "CROSSING_GIVE_WAY"
    ELSE IF InSector(relative_bearing, PORT_MIN, PORT_MAX)
         THEN "CROSSING_STAND_ON"
    ELSE "SAFE"

classify(sd, os_position, os_heading, os_speed, ts_position, ts_heading, ts_speed) ==
    LET distance == calculate_distance(os_position, ts_position)
        relative_bearing ==
            calculate_relative_bearing(os_position, os_heading, ts_position)
        aspect_angle == calculate_aspect_angle(ts_heading, os_position, ts_position)
        relative_course == normalize_angle_360(ts_heading - os_heading)
    IN  [encounter_type |->
            IF RootGt(distance, sd)
            THEN "SAFE"
            ELSE DetermineEncounterType(relative_bearing, relative_course,
                                        os_speed, ts_speed),
         relative_bearing |-> relative_bearing,
         relative_course |-> relative_course,
         distance |-> distance,
         aspect_angle |-> aspect_angle]

\* static lookup keyed by the encounter type alone: the rule cited and the
\* action recommended
get_action_requirement(encounter_type) ==
    CASE encounter_type = "HEAD_ON" ->
            [rule |-> "Rule 14", action |-> "alter course to starboard"]
      [] encounter_type = "CROSSING_GIVE_WAY" ->
            [rule |-> "Rule 15", action |-> "give way, pass astern"]
      [] encounter_type = "CROSSING_STAND_ON" ->
            [rule |-> "Rule 15", action |-> "maintain course and speed"]
      [] encounter_type = "OVERTAKING" ->
            [rule |-> "Rule 13", action |-> "keep clear until past and clear"]
      [] encounter_type = "SAFE" ->
            [rule |-> "none", action |-> "no action required"]

(***************************************************************************)
(* RiskAssessor                                                            *)
(***************************************************************************)
\* the total order SAFE < LOW < MEDIUM < HIGH < CRITICAL
RiskLevel == <<"SAFE", "LOW", "MEDIUM", "HIGH", "CRITICAL">>

Ordinal(level) == CHOOSE i \in 1..Len(RiskLevel) : RiskLevel[i] = level

\* default thresholds, most severe first
DefaultThresholds ==
    << [level |-> "CRITICAL", dcpa_max |-> 200, tcpa_max |-> 300],
       [level |-> "HIGH", dcpa_max |-> 500, tcpa_max |-> 600],
       [level |-> "MEDIUM", dcpa_max |-> 1000, tcpa_max |-> 1200],
       [level |-> "LOW", dcpa_max |-> 2000, tcpa_max |-> 1800] >>

\* faulty variant: upper bounds inclusive
Qualifies_inclusive(th, dcpa, tcpa) ==
    /\ RootLe(dcpa, th.dcpa_max)
    /\ TimeGe(tcpa, 0)
    /\ ~tcpa.inf /\ tcpa.n <= th.tcpa_max * tcpa.d

\* faulty variant: the dcpa comparison the wrong way round
Qualifies_dcpa_flipped(th, dcpa, tcpa) ==
    /\ RootGt(dcpa, th.dcpa_max)
    /\ TimeGe(tcpa, 0)
    /\ TimeLt(tcpa, th.tcpa_max)

Qualifies(th, dcpa, tcpa) ==
    /\ RootLt(dcpa, th.dcpa_max)
    /\ TimeGe(tcpa, 0)
    /\ TimeLt(tcpa, th.tcpa_max)

\* the first level, from most to least severe, whose condition holds
DetermineRiskLevel(table, dcpa, tcpa) ==
    LET hits == {i \in 1..Len(table) : Qualifies(table[i], dcpa, tcpa)}
    IN  IF hits = {}
        THEN "SAFE"
        ELSE table[CHOOSE i \in hits : \A j \in hits : i <= j].level

IsDangerous(level) == Ordinal(level) > Ordinal("SAFE")

\* faulty variant: action required from HIGH upwards
RequiresAction_from_high(level) == Ordinal(level) >= Ordinal("HIGH")

RequiresAction(level) == Ordinal(level) >= Ordinal("MEDIUM")

assess(table, os_position, os_velocity, ts_position, ts_velocity) ==
    LET distance == calculate_distance(os_position, ts_position)
        cpa == calculate_cpa_tcpa(os_position, os_velocity, ts_position, ts_velocity)
        bearing_rate ==
            calculate_bearing_rate(os_position, os_velocity, ts_position, ts_velocity)
        risk_level == DetermineRiskLevel(table, cpa.dcpa, cpa.tcpa)
    IN  [dcpa |-> cpa.dcpa,
         tcpa |-> cpa.tcpa,
         distance |-> distance,
         bearing_rate |-> bearing_rate,
         risk_level |-> risk_level,
         is_dangerous |-> IsDangerous(risk_level),
         requires_action |-> RequiresAction(risk_level)]

\* targets is a sequence of <<position, velocity>>.  Every target is assessed
\* on its own; the pick is the highest risk level, then the smaller tcpa, and
\* the earliest position among targets equal in both.  index counts from 0.
get_most_dangerous_target(table, os_position, os_velocity, targets) ==
    LET assessments ==
            [i \in 1..Len(targets) |->
                assess(table, os_position, os_velocity,
                       targets[i][1], targets[i][2])]
        MoreDangerous(i, j) ==
            \/ Ordinal(assessments[i].risk_level)
                    > Ordinal(assessments[j].risk_level)
            \/ /\ assessments[i].risk_level = assessments[j].risk_level
               /\ TimeBefore(assessments[i].tcpa, assessments[j].tcpa)
        best ==
            CHOOSE i \in 1..Len(targets) :
                /\ \A j \in 1..Len(targets) : ~MoreDangerous(j, i)
                /\ \A j \in 1..(i - 1) : MoreDangerous(i, j)
    IN  IF Len(targets) = 0
        THEN [none |-> TRUE]
        ELSE [none |-> FALSE, index |-> best - 1,
              assessment |-> assessments[best]]

(***************************************************************************)
(* Inputs                                                                  *)
(***************************************************************************)
SafeDistances == {2000, 3000}

ClassifyGrid == {1000 * k : k \in (-MaxGridClassify)..MaxGridClassify}
AssessGrid == {100 * k : k \in (-MaxGridAssess)..MaxGridAssess}

OsPositions == {<<0, 0>>, <<0, 1000>>}

\* own-ship headings on the 2.5 degree grid, target headings cardinal
OsHeadings == {25 * k : k \in 0..143}
TsHeadings == Cardinal

OsSpeeds == {10, 15}
TsSpeeds == {8, 15}
AssessTsSpeeds == {0, 8, 10, 12}

\* (dcpa, tcpa) pairs at and next to the threshold edges
ProbeDcpa ==
    {0} \cup {DefaultThresholds[i].dcpa_max - e : i \in 1..4, e \in {0, 1}}
ProbeTcpa ==
    {Time(-1, 1), Time(0, 1), Infinity}
        \cup {Time(DefaultThresholds[i].tcpa_max - e, 1) : i \in 1..4, e \in {0, 1}}

\* the target is no farther than the grid's half-width along either axis
InAssessRange(os_position, ts_position) ==
    /\ Abs(ts_position[1] - os_position[1]) <= 100 * MaxGridAssess
    /\ Abs(ts_position[2] - os_position[2]) <= 100 * MaxGridAssess

\* angles of up to MaxTurns turns either way on the tenth-of-a-degree grid,
\* and the two angles next to 0
FloatAngles ==
    {Exact(deg) : deg \in (-MaxTurns * FULL_TURN)..(MaxTurns * FULL_TURN)}
        \cup {Float(0, 1), Float(0, -1)}

\* speeds handed to heading_to_velocity, negative ones included, and the
\* velocity components handed to velocity_to_heading_speed directly
ConversionSpeeds == {-10, -1, 0, 1, 8, 10, 15}
ConversionComponents == {-10, 0, 10}

\* positions and target speeds of the direct calculate_cpa_tcpa calls
CpaGrid == {500 * k : k \in (-MaxGridCpa)..MaxGridCpa}
CpaTsSpeeds == {0, 8, 10}

InCpaRange(os_position, ts_position) ==
    /\ Abs(ts_position[1] - os_position[1]) <= 500 * MaxGridCpa
    /\ Abs(ts_position[2] - os_position[2]) <= 500 * MaxGridCpa

\* own-ship speeds of the direct calculate_bearing_rate calls (0: at rest)
RateOsSpeeds == {0, 10}

\* target ships <<position, heading, speed>> seen from an own ship at the
\* origin heading North at 10 m/s: far, near but receding, on a collision
\* course 500 m and 300 m ahead, abeam on the same course and speed, and
\* passing 400 m off
MaxTargets == 3
TargetShips ==
    { <<<<3000, 3000>>, 1800, 10>>, <<<<100, -100>>, 1800, 10>>,
      <<<<0, 500>>, 1800, 10>>, <<<<0, 300>>, 1800, 10>>,
      <<<<500, 0>>, 0, 10>>, <<<<400, 1000>>, 1800, 10>> }

NoCall == [op |-> "none"]

\* the calls that are remembered and made again later: one of each kind
MemorableCalls ==
    { [op |-> "classify", os_position |-> <<0, 0>>, os_heading |-> 0,
       os_speed |-> 10, ts_position |-> <<0, 3000>>, ts_heading |-> 1800,
       ts_speed |-> 8],
      [op |-> "assess", os_position |-> <<0, 0>>, os_velocity |-> <<0, 10>>,
       ts_position |-> <<0, 500>>, ts_velocity |-> <<0, -10>>],
      [op |-> "get_most_dangerous_target", os_position |-> <<0, 0>>,
       os_velocity |-> <<0, 10>>,
       targets |-> << <<<<3000, 3000>>, <<0, -10>>>>,
                      <<<<100, -100>>, <<0, -10>>>>,
                      <<<<0, 500>>, <<0, -10>>>> >>],
      [op |-> "get_action_requirement", encounter_type |-> "HEAD_ON"] }

(***************************************************************************)
(* State machine                                                           *)
(***************************************************************************)
Init ==
    /\ safe_distance \in SafeDistances
    /\ thresholds = DefaultThresholds
    /\ call = NoCall
    /\ result = NoCall
    /\ prev = NoCall
    /\ remembered = NoCall
    /\ env = NoCall

\* The calls are synchronous: one call is made at a time and its result is
\* handed back to the caller (Return) before the next call is made.
Idle == call = NoCall

\* faulty variant: the classifier widens its safe distance to the range of
\* any target it has classified beyond it
Classify_adaptive ==
    /\ Idle
    /\ \E os_position \in OsPositions, ts_position \in ClassifyGrid \X ClassifyGrid,
       os_heading \in OsHeadings, ts_heading \in TsHeadings,
       os_speed \in OsSpeeds, ts_speed \in TsSpeeds :
        /\ OnCompass(ts_position[1] - os_position[1],
                     ts_position[2] - os_position[2])
        /\ call' = [op |-> "classify",
                    os_position |-> os_position, os_heading |-> os_heading,
                    os_speed |-> os_speed, ts_position |-> ts_position,
                    ts_heading |-> ts_heading, ts_speed |-> ts_speed]
        /\ result' = classify(safe_distance, os_position, os_heading, os_speed,
                              ts_position, ts_heading, ts_speed)
        /\ prev' = NoCall
        /\ safe_distance' =
              IF RootGt(calculate_distance(os_position, ts_position), safe_distance)
                 /\ RootLe(calculate_distance(os_position, ts_position), 3000)
              THEN 3000
              ELSE safe_distance
        /\ UNCHANGED <<thresholds, remembered, env>>

Classify ==
    /\ Idle
    /\ \E os_position \in OsPositions, ts_position \in ClassifyGrid \X ClassifyGrid,
       os_heading \in OsHeadings, ts_heading \in TsHeadings,
       os_speed \in OsSpeeds, ts_speed \in TsSpeeds :
        /\ OnCompass(ts_position[1] - os_position[1],
                     ts_position[2] - os_position[2])
        /\ call' = [op |-> "classify",
                    os_position |-> os_position, os_heading |-> os_heading,
                    os_speed |-> os_speed, ts_position |-> ts_position,
                    ts_heading |-> ts_heading, ts_speed |-> ts_speed]
        /\ result' = classify(safe_distance, os_position, os_heading, os_speed,
                              ts_position, ts_heading, ts_speed)
        /\ prev' = NoCall
        /\ UNCHANGED <<safe_distance, thresholds, remembered, env>>

Assess ==
    /\ Idle
    /\ \E os_position \in OsPositions, ts_position \in AssessGrid \X AssessGrid,
       os_speed \in OsSpeeds, ts_heading \in Cardinal, ts_speed \in AssessTsSpeeds :
        LET os_velocity == heading_to_velocity(0, os_speed)
            ts_velocity == heading_to_velocity(ts_heading, ts_speed)
        IN  /\ InAssessRange(os_position, ts_position)
            /\ call' = [op |-> "assess",
                        os_position |-> os_position, os_velocity |-> os_velocity,
                        ts_position |-> ts_position, ts_velocity |-> ts_velocity]
            /\ result' = assess(thresholds, os_position, os_velocity,
                                ts_position, ts_velocity)
            /\ prev' = NoCall
            /\ UNCHANGED <<safe_distance, thresholds, remembered, env>>

DetermineRisk ==
    /\ Idle \/ (call.op = "determine_risk_level" /\ prev = NoCall)
    /\ \E d \in ProbeDcpa, t \in ProbeTcpa :
        /\ call' = [op |-> "determine_risk_level",
                    dcpa |-> Root(d * d, 1), tcpa |-> t]
        /\ result' = [risk_level |->
                        DetermineRiskLevel(thresholds, Root(d * d, 1), t)]
        /\ prev' = IF call.op = "determine_risk_level"
                   THEN [op |-> call.op, dcpa |-> call.dcpa, tcpa |-> call.tcpa,
                         risk_level |-> result.risk_level]
                   ELSE NoCall
        /\ UNCHANGED <<safe_distance, thresholds, remembered, env>>

\* normalize_angle applied to an angle, or once more to its own result
NormalizeAngle ==
    /\ Idle \/ (call.op = "normalize_angle" /\ prev = NoCall)
    /\ \E angle \in (IF Idle THEN FloatAngles ELSE {result}) :
        /\ call' = [op |-> "normalize_angle", angle |-> angle]
        /\ result' = normalize_angle_float(angle)
        /\ prev' = IF Idle THEN NoCall ELSE call
        /\ UNCHANGED <<safe_distance, thresholds, remembered, env>>

\* normalize_angle_360 applied to an angle, or once more to its own result
NormalizeAngle360 ==
    /\ Idle \/ (call.op = "normalize_angle_360" /\ prev = NoCall)
    /\ \E angle \in (IF Idle THEN FloatAngles ELSE {result}) :
        /\ call' = [op |-> "normalize_angle_360", angle |-> angle]
        /\ result' = normalize_angle_360_float(angle)
        /\ prev' = IF Idle THEN NoCall ELSE call
        /\ UNCHANGED <<safe_distance, thresholds, remembered, env>>

\* the function has no check of its arguments and no raise: every call returns
HeadingToVelocity ==
    /\ Idle
    /\ \E heading \in Cardinal, speed \in ConversionSpeeds :
        /\ call' = [op |-> "heading_to_velocity",
                    heading |-> heading, speed |-> speed]
        /\ result' = [returned |-> TRUE,
                      value |-> heading_to_velocity(heading, speed)]
        /\ prev' = NoCall
        /\ UNCHANGED <<safe_distance, thresholds, remembered, env>>

\* velocity_to_heading_speed of a velocity, or of the velocity that
\* heading_to_velocity has just returned
VelocityToHeadingSpeed ==
    /\ Idle \/ (call.op = "heading_to_velocity" /\ result.returned)
    /\ \E velocity \in (IF Idle
                        THEN ConversionComponents \X ConversionComponents
                        ELSE {result.value}) :
        /\ call' = [op |-> "velocity_to_heading_speed", velocity |-> velocity]
        /\ result' = [returned |-> TRUE,
                      value |-> velocity_to_heading_speed(velocity)]
        /\ prev' = IF Idle THEN NoCall ELSE call
        /\ UNCHANGED <<safe_distance, thresholds, remembered, env>>

CpaTcpa ==
    /\ Idle
    /\ \E os_position \in OsPositions, ts_position \in CpaGrid \X CpaGrid,
       ts_heading \in Cardinal, ts_speed \in CpaTsSpeeds :
        LET os_velocity == heading_to_velocity(0, 10)
            ts_velocity == heading_to_velocity(ts_heading, ts_speed)
        IN  /\ InCpaRange(os_position, ts_position)
            /\ call' = [op |-> "calculate_cpa_tcpa",
                        os_position |-> os_position, os_velocity |-> os_velocity,
                        ts_position |-> ts_position, ts_velocity |-> ts_velocity]
            /\ result' = calculate_cpa_tcpa(os_position, os_velocity,
                                            ts_position, ts_velocity)
            /\ prev' = NoCall
            /\ UNCHANGED <<safe_distance, thresholds, remembered, env>>

BearingRate ==
    /\ Idle
    /\ \E os_position \in OsPositions, ts_position \in CpaGrid \X CpaGrid,
       os_heading \in Cardinal, os_speed \in RateOsSpeeds,
       ts_heading \in Cardinal, ts_speed \in CpaTsSpeeds :
        LET os_velocity == heading_to_velocity(os_heading, os_speed)
            ts_velocity == heading_to_velocity(ts_heading, ts_speed)
        IN  /\ InCpaRange(os_position, ts_position)
            /\ call' = [op |-> "calculate_bearing_rate",
                        os_position |-> os_position, os_velocity |-> os_velocity,
                        ts_position |-> ts_position, ts_velocity |-> ts_velocity]
            /\ result' = calculate_bearing_rate(os_position, os_velocity,
                                                ts_position, ts_velocity)
            /\ prev' = NoCall
            /\ UNCHANGED <<safe_distance, thresholds, remembered, env>>

GetMostDangerousTarget ==
    /\ Idle
    /\ \E n \in 0..MaxTargets : \E ships \in [1..n -> TargetShips] :
        LET os_position == <<0, 0>>
            os_velocity == heading_to_velocity(0, 10)
            targets ==
                [i \in 1..n |->
                    <<ships[i][1], heading_to_velocity(ships[i][2], ships[i][3])>>]
        IN  /\ call' = [op |-> "get_most_dangerous_target",
                        os_position |-> os_position, os_velocity |-> os_velocity,
                        targets |-> targets]
            /\ result' = get_most_dangerous_target(thresholds, os_position,
                                                   os_velocity, targets)
            /\ prev' = NoCall
            /\ UNCHANGED <<safe_distance, thresholds, remembered, env>>

GetActionRequirement ==
    /\ Idle
    /\ \E encounter_type \in EncounterType :
        /\ call' = [op |-> "get_action_requirement",
                    encounter_type |-> encounter_type]
        /\ result' = get_action_requirement(encounter_type)
        /\ prev' = NoCall
        /\ UNCHANGED <<safe_distance, thresholds, remembered, env>>

\* the caller keeps a call and its result, to make the same call again later
Remember ==
    /\ remembered = NoCall
    /\ call \in MemorableCalls
    /\ remembered' = [call |-> call, result |-> result, later |-> FALSE]
    /\ UNCHANGED <<safe_distance, thresholds, call, result, prev, env>>

\* later: the remembered call has returned
Return ==
    /\ ~Idle
    /\ call' = NoCall
    /\ result' = NoCall
    /\ prev' = NoCall
    /\ remembered' = IF remembered = NoCall
                     THEN remembered
                     ELSE [remembered EXCEPT !.later = TRUE]
    /\ UNCHANGED <<safe_distance, thresholds, env>>

Next ==
    \/ Classify \/ Assess \/ DetermineRisk
    \/ NormalizeAngle \/ NormalizeAngle360
    \/ HeadingToVelocity \/ VelocityToHeadingSpeed
    \/ CpaTcpa \/ BearingRate \/ GetMostDangerousTarget
    \/ GetActionRequirement
    \/ Return

Spec == Init /\ [][Next]_vars

(***************************************************************************)
(* The simulation of test_simulation_integration.py: an own ship and one   *)
(* target ship on constant headings and speeds, observed at every tick.    *)
(* The observation is the assessment of the target; its classify fields    *)
(* are left out (the bearings along a run are not on the compass           *)
(* directions of ArcTan2Deg).                                              *)
(***************************************************************************)
MaxSteps == 4

\* where the target starts: abeam offsets and distances ahead that put tcpa
\* next to 0 and next to each tcpa threshold at a closing speed of 20 m/s
SimOffsets == {0, 100, 400, 900, 1900, 2100}
SimAhead == {40, 6020, 12020, 24020, 36020}
SimTsHeadings == {0, 1800, 2700}

Ship(position, heading, speed) ==
    [position |-> position, heading |-> heading, speed |-> speed]

Ship_get_velocity(ship) == heading_to_velocity(ship.heading, ship.speed)

\* faulty variant: the velocity components added to the wrong coordinates
Ship_step_transposed(ship, dt) ==
    LET v == Ship_get_velocity(ship)
    IN  [ship EXCEPT !.position =
            <<ship.position[1] + v[2] * dt, ship.position[2] + v[1] * dt>>]

Ship_step(ship, dt) ==
    LET v == Ship_get_velocity(ship)
    IN  [ship EXCEPT !.position =
            <<ship.position[1] + v[1] * dt, ship.position[2] + v[2] * dt>>]

\* the assess call get_observation makes for the target, and its result
ObservationCall(e) ==
    [op |-> "assess",
     os_position |-> e.own_ship.position,
     os_velocity |-> Ship_get_velocity(e.own_ship),
     ts_position |-> e.target_ship.position,
     ts_velocity |-> Ship_get_velocity(e.target_ship)]

Observation(e) ==
    assess(thresholds, e.own_ship.position, Ship_get_velocity(e.own_ship),
           e.target_ship.position, Ship_get_velocity(e.target_ship))

\* SimpleNavigationEnv(), add_own_ship, add_target_ship
SetUp ==
    /\ Idle
    /\ env = NoCall
    /\ \E x \in SimOffsets, y \in SimAhead, ts_heading \in SimTsHeadings :
        env' = [own_ship |-> Ship(<<0, 0>>, 0, 10),
                target_ship |-> Ship(<<x, y>>, ts_heading, 10),
                time_step |-> 0,
                dt |-> 1]
    /\ UNCHANGED <<safe_distance, thresholds, call, result, prev, remembered>>

\* the first get_observation
Observe ==
    /\ Idle
    /\ env # NoCall
    /\ call' = ObservationCall(env)
    /\ result' = Observation(env)
    /\ prev' = NoCall
    /\ UNCHANGED <<safe_distance, thresholds, remembered, env>>

\* env.step(): every ship advances by dt, the tick is counted and the
\* observation is taken again; prev keeps the observation before the tick
Step ==
    /\ env # NoCall
    /\ call.op = "assess"
    /\ env.time_step < MaxSteps
    /\ LET stepped ==
               [env EXCEPT !.own_ship = Ship_step(@, env.dt),
                           !.target_ship = Ship_step(@, env.dt),
                           !.time_step = @ + 1]
       IN  /\ env' = stepped
           /\ call' = ObservationCall(stepped)
           /\ result' = Observation(stepped)
    /\ prev' = [op |-> "assess", result |-> result, dt |-> env.dt]
    /\ UNCHANGED <<safe_distance, thresholds, remembered>>

NextSim == SetUp \/ Observe \/ Step

SpecSim == Init /\ [][NextSim]_vars

\* the classifier and the assessor in use, with a caller that remembers one
\* call and makes it again after other calls
NextRepeat ==
    \/ Classify \/ Assess \/ GetMostDangerousTarget \/ GetActionRequirement
    \/ Remember
    \/ Return

SpecRepeat == Init /\ [][NextRepeat]_vars

(***************************************************************************)
(* Properties of classify                                                  *)
(***************************************************************************)
Classified == call.op = "classify"

\* the geometry of the call's arguments, stated without the program's helpers
ArgDx == call.ts_position[1] - call.os_position[1]
ArgDy == call.ts_position[2] - call.os_position[2]
ArgRangeSq == ArgDx * ArgDx + ArgDy * ArgDy

\* compass bearing of TS from OS, clockwise from North, in [0, 3600)
ArgBearing ==
    CASE ArgDx = 0 /\ ArgDy >= 0 -> 0
      [] ArgDx > 0 /\ ArgDy = ArgDx -> 450
      [] ArgDx > 0 /\ ArgDy = 0 -> 900
      [] ArgDx > 0 /\ ArgDy = -ArgDx -> 1350
      [] ArgDx = 0 /\ ArgDy < 0 -> 1800
      [] ArgDx < 0 /\ ArgDy = ArgDx -> 2250
      [] ArgDx < 0 /\ ArgDy = 0 -> 2700
      [] ArgDx < 0 /\ ArgDy = -ArgDx -> 3150

\* bearing of TS measured clockwise from the OS heading, in [0, 3600)
ArgRelativeBearing ==
    IF ArgBearing >= call.os_heading
    THEN ArgBearing - call.os_heading
    ELSE ArgBearing - call.os_heading + 3600

BeyondSafeDistance == ArgRangeSq > safe_distance * safe_distance
WithinSafeDistance == Classified /\ ~BeyondSafeDistance

\* C1: a target strictly farther than safe_distance is classified SAFE, and
\* the distance reported with it is greater than safe_distance, whatever the
\* headings and speeds.
C1_SafeBeyondSafeDistance ==
    (Classified /\ BeyondSafeDistance) =>
        /\ result.encounter_type = "SAFE"
        /\ RootGt(result.distance, safe_distance)

\* a target dead ahead on a reciprocal course, beyond the safe distance
C1_Witness ==
    /\ Classified /\ BeyondSafeDistance
    /\ ArgRelativeBearing = 0
    /\ call.ts_heading = 1800 /\ call.os_heading = 0
    /\ result.encounter_type = "SAFE"
    /\ result.distance = Root(ArgRangeSq, 1)

\* C2: within the safe distance the sector edges are half-open: a relative
\* bearing of exactly 5 deg is CROSSING_GIVE_WAY, exactly 112.5 deg is in the
\* stern sector (OVERTAKING when one vessel is faster, never
\* CROSSING_GIVE_WAY), exactly 247.5 deg is CROSSING_STAND_ON and exactly
\* 355 deg is not CROSSING_STAND_ON; every bearing yields one category.
C2_HalfOpenSectorEdges ==
    WithinSafeDistance =>
        /\ result.encounter_type \in EncounterType
        /\ ArgRelativeBearing = 50 => result.encounter_type = "CROSSING_GIVE_WAY"
        /\ ArgRelativeBearing = 1125 =>
              /\ result.encounter_type # "CROSSING_GIVE_WAY"
              /\ call.os_speed # call.ts_speed =>
                    result.encounter_type = "OVERTAKING"
        /\ ArgRelativeBearing = 2475 => result.encounter_type = "CROSSING_STAND_ON"
        /\ ArgRelativeBearing = 3550 => result.encounter_type # "CROSSING_STAND_ON"

\* a target exactly on the 247.5 deg edge, one vessel faster, rated stand-on
C2_Witness ==
    /\ WithinSafeDistance
    /\ ArgRelativeBearing = 2475
    /\ call.os_speed # call.ts_speed
    /\ result.encounter_type = "CROSSING_STAND_ON"

\* the relative course is within the head-on band around 180 deg
ArgReciprocal ==
    LET rc == (call.ts_heading - call.os_heading + 3600) % 3600
    IN  1800 - HEAD_ON_COURSE_TOL < rc /\ rc < 1800 + HEAD_ON_COURSE_TOL

\* C3: within the safe distance a target in the forward window (relative
\* bearing below 5 deg or above 355 deg) on a (nearly) reciprocal course is
\* HEAD_ON; and whenever the result is HEAD_ON the reported relative bearing
\* is within 10 deg of dead ahead, modulo 360.
C3_HeadOn ==
    WithinSafeDistance =>
        /\ ((ArgRelativeBearing < 50 \/ ArgRelativeBearing > 3550) /\ ArgReciprocal)
              => result.encounter_type = "HEAD_ON"
        /\ result.encounter_type = "HEAD_ON" =>
              /\ result.relative_bearing < 100 \/ result.relative_bearing > 3500
              /\ ArgRelativeBearing < 100 \/ ArgRelativeBearing > 3500

\* head-on with the target just to port of the bow (bearing 357.5 deg)
C3_Witness ==
    /\ WithinSafeDistance
    /\ ArgRelativeBearing = 3575
    /\ ArgReciprocal
    /\ result.encounter_type = "HEAD_ON"
    /\ result.relative_bearing = 3575

\* C4 as stated: CROSSING_GIVE_WAY only for 5 < bearing < 112.5 and
\* CROSSING_STAND_ON only for 247.5 < bearing < 355, both bounds strict.
C4_StrictBounds ==
    WithinSafeDistance =>
        /\ result.encounter_type = "CROSSING_GIVE_WAY" =>
              (50 < ArgRelativeBearing /\ ArgRelativeBearing < 1125)
        /\ result.encounter_type = "CROSSING_STAND_ON" =>
              (2475 < ArgRelativeBearing /\ ArgRelativeBearing < 3550)

\* C4 (amended): CROSSING_GIVE_WAY is returned only when
\* 5 <= relative bearing < 112.5 and CROSSING_STAND_ON only when
\* 247.5 <= relative bearing < 355 (lower edges inclusive), for the bearing
\* of the arguments and for the bearing reported in the result.
C4_CrossingSectors ==
    Classified =>
        /\ result.encounter_type = "CROSSING_GIVE_WAY" =>
              /\ 50 <= ArgRelativeBearing /\ ArgRelativeBearing < 1125
              /\ 50 <= result.relative_bearing /\ result.relative_bearing < 1125
        /\ result.encounter_type = "CROSSING_STAND_ON" =>
              /\ 2475 <= ArgRelativeBearing /\ ArgRelativeBearing < 3550
              /\ 2475 <= result.relative_bearing /\ result.relative_bearing < 3550

\* give-way with the target exactly on the 5 deg edge
C4_Witness ==
    /\ WithinSafeDistance
    /\ result.encounter_type = "CROSSING_GIVE_WAY"
    /\ ArgRelativeBearing = 50
    /\ result.relative_bearing = 50

ArgInStern == 1125 <= ArgRelativeBearing /\ ArgRelativeBearing < 2475

\* C5: within the safe distance a target in the stern sector
\* (112.5 <= bearing < 247.5) whose speed differs from the own-ship speed is
\* OVERTAKING, whichever vessel is the faster; and whenever the result is
\* OVERTAKING, 112.5 <= relative bearing <= 247.5.
C5_Overtaking ==
    Classified =>
        /\ (WithinSafeDistance /\ ArgInStern /\ call.os_speed # call.ts_speed)
              => result.encounter_type = "OVERTAKING"
        /\ result.encounter_type = "OVERTAKING" =>
              /\ 1125 <= result.relative_bearing /\ result.relative_bearing <= 2475
              /\ 1125 <= ArgRelativeBearing /\ ArgRelativeBearing <= 2475

\* target dead astern on the same heading, OS 15 m/s against TS 8 m/s
C5_Witness ==
    /\ WithinSafeDistance
    /\ call.os_position = <<0, 1000>> /\ call.ts_position = <<0, 0>>
    /\ call.os_heading = 0 /\ call.ts_heading = 0
    /\ call.os_speed = 15 /\ call.ts_speed = 8
    /\ result.relative_bearing = 1800
    /\ result.encounter_type = "OVERTAKING"

(***************************************************************************)
(* Properties of assess                                                    *)
(***************************************************************************)
Assessed == call.op = "assess"
Determined == call.op = "determine_risk_level"

\* the (dcpa, tcpa) the risk level of the current call was decided on
RatedDcpa == IF Assessed THEN result.dcpa ELSE call.dcpa
RatedTcpa == IF Assessed THEN result.tcpa ELSE call.tcpa

Within(dcpa, tcpa, dcpaMax, tcpaMax) ==
    /\ RootLt(dcpa, dcpaMax)
    /\ ~tcpa.inf /\ 0 <= tcpa.n /\ tcpa.n < tcpaMax * tcpa.d

ArgVx == call.ts_velocity[1] - call.os_velocity[1]
ArgVy == call.ts_velocity[2] - call.os_velocity[2]
ArgOpening == ArgDx * ArgVx + ArgDy * ArgVy > 0
ArgNoRelativeMotion == ArgVx = 0 /\ ArgVy = 0

\* C7: when tcpa is negative (the ships are opening) or +infinity (no
\* relative motion), assess returns SAFE with is_dangerous and
\* requires_action false, however small dcpa and the distance are.
C7_PastOrNoCpaIsSafe ==
    Assessed =>
        /\ ArgOpening => TimeNeg(result.tcpa)
        /\ ArgNoRelativeMotion => result.tcpa.inf
        /\ (TimeNeg(result.tcpa) \/ result.tcpa.inf) =>
              /\ result.risk_level = "SAFE"
              /\ ~result.is_dangerous
              /\ ~result.requires_action

\* a target 141 m away that passed within 100 m and is opening
C7_Witness ==
    /\ Assessed
    /\ ArgOpening
    /\ TimeNeg(result.tcpa)
    /\ RootLt(result.dcpa, 200)
    /\ RootLt(result.distance, 200)
    /\ result.risk_level = "SAFE"
    /\ ~result.is_dangerous

\* C8: is_dangerous is true exactly for the levels above SAFE and
\* requires_action exactly for MEDIUM, HIGH and CRITICAL; so requires_action
\* implies is_dangerous, and a CRITICAL result has both flags.
C8_Flags ==
    Assessed =>
        /\ result.is_dangerous =
              (result.risk_level \in {"LOW", "MEDIUM", "HIGH", "CRITICAL"})
        /\ result.requires_action =
              (result.risk_level \in {"MEDIUM", "HIGH", "CRITICAL"})
        /\ result.requires_action => result.is_dangerous
        /\ result.risk_level = "CRITICAL" =>
              (result.is_dangerous /\ result.requires_action)
        /\ Ordinal("SAFE") < Ordinal("LOW") /\ Ordinal("LOW") < Ordinal("MEDIUM")
        /\ Ordinal("MEDIUM") < Ordinal("HIGH")
        /\ Ordinal("HIGH") < Ordinal("CRITICAL")

\* a HIGH result: dangerous and requiring action
C8_Witness ==
    /\ Assessed
    /\ result.risk_level = "HIGH"
    /\ result.is_dangerous
    /\ result.requires_action

\* a / b <= c / d for times (infinity is the largest)
TimeLe(s, t) == t.inf \/ (~s.inf /\ s.n * t.d <= t.n * s.d)

RootLeRoot(x, y) == x.n * y.d <= y.n * x.d

\* C9: of two (dcpa, tcpa) pairs with the same tcpa >= 0 the one with the
\* smaller dcpa has a level at least as high, and of two pairs with the
\* same dcpa the one with the smaller tcpa (both >= 0) has a level at least
\* as high.
C9_Monotone ==
    (Determined /\ prev # NoCall) =>
        /\ (prev.tcpa = call.tcpa /\ TimeGe(call.tcpa, 0)
              /\ RootLeRoot(prev.dcpa, call.dcpa))
              => Ordinal(prev.risk_level) >= Ordinal(result.risk_level)
        /\ (prev.dcpa = call.dcpa /\ TimeGe(prev.tcpa, 0)
              /\ TimeLe(prev.tcpa, call.tcpa))
              => Ordinal(prev.risk_level) >= Ordinal(result.risk_level)

\* same tcpa, the smaller dcpa rated strictly higher
C9_Witness ==
    /\ Determined /\ prev # NoCall
    /\ prev.tcpa = call.tcpa /\ TimeGe(call.tcpa, 0)
    /\ RootLeRoot(prev.dcpa, call.dcpa)
    /\ Ordinal(prev.risk_level) > Ordinal(result.risk_level)
    /\ result.risk_level # "SAFE"

\* C10: OS at (0,0) heading 0 at 10 m/s and TS at (1500,1500) heading 270 at
\* 8 m/s is rated LOW or MEDIUM.
C10_LowOrMedium ==
    (/\ Assessed
     /\ call.os_position = <<0, 0>>
     /\ call.os_velocity = heading_to_velocity(0, 10)
     /\ call.ts_position = <<1500, 1500>>
     /\ call.ts_velocity = heading_to_velocity(2700, 8))
        => result.risk_level \in {"LOW", "MEDIUM"}

(***************************************************************************)
(* Properties of get_most_dangerous_target                                 *)
(***************************************************************************)
MostDangerousAsked == call.op = "get_most_dangerous_target"

\* the assessment of the i-th target of the call, on its own
ArgAssessment(i) ==
    assess(thresholds, call.os_position, call.os_velocity,
           call.targets[i][1], call.targets[i][2])

\* test_multiple_targets: far, near but receding, collision course
TestMultipleTargets ==
    << <<<<3000, 3000>>, <<0, -10>>>>, <<<<100, -100>>, <<0, -10>>>>,
       <<<<0, 500>>, <<0, -10>>>> >>

\* C11: get_most_dangerous_target returns none exactly for the empty
\* sequence; otherwise a valid index with the assessment of that target, no
\* target has a higher risk level, and no target of the same level has a
\* smaller tcpa; of the far, the receding and the collision-course target it
\* picks the third (index 2), which is dangerous.
C11_MostDangerousTarget ==
    MostDangerousAsked =>
        /\ result.none <=> (Len(call.targets) = 0)
        /\ ~result.none =>
            /\ result.index \in 0..(Len(call.targets) - 1)
            /\ result.assessment = ArgAssessment(result.index + 1)
            /\ \A j \in 1..Len(call.targets) :
                /\ Ordinal(ArgAssessment(j).risk_level)
                        <= Ordinal(result.assessment.risk_level)
                /\ ArgAssessment(j).risk_level = result.assessment.risk_level
                        => ~TimeBefore(ArgAssessment(j).tcpa,
                                       result.assessment.tcpa)
        /\ call.targets = TestMultipleTargets =>
            /\ ~result.none
            /\ result.index = 2
            /\ result.assessment.is_dangerous

C11_Witness ==
    /\ MostDangerousAsked
    /\ call.targets = TestMultipleTargets
    /\ result.index = 2
    /\ result.assessment.is_dangerous
(***************************************************************************)
(* Properties of calculate_cpa_tcpa                                        *)
(***************************************************************************)
CpaAsked == call.op = "calculate_cpa_tcpa"

ArgVSq == ArgVx * ArgVx + ArgVy * ArgVy
ArgRDotV == ArgDx * ArgVx + ArgDy * ArgVy
ArgRCrossV == ArgDx * ArgVy - ArgDy * ArgVx
ArgClosing == ArgRDotV < 0

\* C12: with no relative velocity (same course and speed) calculate_cpa_tcpa
\* returns tcpa = +infinity and dcpa equal to the present separation |r|.
C12_NoRelativeMotion ==
    (CpaAsked /\ ArgNoRelativeMotion) =>
        /\ result.tcpa.inf
        /\ result.dcpa.n = ArgRangeSq * result.dcpa.d

\* test_parallel_same_speed: TS 500 m abeam on the same course and speed
C12_Witness ==
    /\ CpaAsked
    /\ ArgDx = 500 /\ ArgDy = 0
    /\ call.os_velocity = <<0, 10>> /\ call.ts_velocity = <<0, 10>>
    /\ result.tcpa.inf
    /\ RootEq(result.dcpa, 500)
\* the ratios a / b and c / d are equal (b, d > 0), compared in lowest terms
SameRatio(a, b, c, d) ==
    /\ a \div GCD(Abs(a), b) = c \div GCD(Abs(c), d)
    /\ b \div GCD(Abs(a), b) = d \div GCD(Abs(c), d)

\* r + v * tcpa for the tcpa of the result, times tcpa.d, in units of 100 m
\* (the positions of the calls are whole multiples of 100 m)
ArgCpaX == (ArgDx \div 100) * result.tcpa.d + ArgVx * (result.tcpa.n \div 100)
ArgCpaY == (ArgDy \div 100) * result.tcpa.d + ArgVy * (result.tcpa.n \div 100)

\* the returned tcpa in lowest terms
TcpaNum == result.tcpa.n \div GCD(Abs(result.tcpa.n), result.tcpa.d)
TcpaDen == result.tcpa.d \div GCD(Abs(result.tcpa.n), result.tcpa.d)

\* C13: with non-zero relative velocity calculate_cpa_tcpa returns
\* tcpa = -(r.v)/|v|^2 and dcpa = |r + v*tcpa|; on a direct collision course
\* dcpa = 0 and tcpa = range / closing speed (2000 m at 20 m/s: 100 s); for a
\* closing target that misses, dcpa > 0 and tcpa > 0.
C13_CpaFormula ==
    (CpaAsked /\ ~ArgNoRelativeMotion) =>
        /\ ~result.tcpa.inf
        /\ result.tcpa.n * ArgVSq = (-ArgRDotV) * result.tcpa.d
        /\ result.tcpa.n % 100 = 0
        /\ SameRatio(result.dcpa.n, 10000 * result.dcpa.d,
                     ArgCpaX * ArgCpaX + ArgCpaY * ArgCpaY,
                     result.tcpa.d * result.tcpa.d)
        /\ (ArgRCrossV = 0 /\ ArgClosing) =>
            /\ RootEq(result.dcpa, 0)
            /\ TcpaNum * TcpaNum * ArgVSq = ArgRangeSq * TcpaDen * TcpaDen
        /\ (ArgDx = 0 /\ ArgDy = 2000 /\ ArgVx = 0 /\ ArgVy = -20) =>
            result.tcpa.n = 100 * result.tcpa.d
        /\ (ArgRCrossV # 0 /\ ArgClosing) =>
            /\ RootGt(result.dcpa, 0)
            /\ result.tcpa.n > 0

\* test_collision_course: TS 2000 m dead ahead on the reciprocal course
C13_Witness ==
    /\ CpaAsked
    /\ ArgDx = 0 /\ ArgDy = 2000 /\ ArgVx = 0 /\ ArgVy = -20
    /\ RootEq(result.dcpa, 0)
    /\ result.tcpa.n = 100 * result.tcpa.d

\* a closing target that passes clear
C13_WitnessMiss ==
    /\ CpaAsked
    /\ ArgRCrossV # 0 /\ ArgClosing
    /\ RootGt(result.dcpa, 0)
    /\ result.tcpa.n > 0

\* C14: tcpa is not clamped: it is strictly negative whenever the ships are
\* moving apart (r.v > 0) and strictly positive whenever they are closing
\* (r.v < 0).
C14_TcpaSign ==
    (CpaAsked /\ ~ArgNoRelativeMotion) =>
        /\ ArgOpening => (~result.tcpa.inf /\ result.tcpa.n < 0)
        /\ ArgClosing => (~result.tcpa.inf /\ result.tcpa.n > 0)

\* test_past_cpa: OS at (0, 1000) northbound, TS at the origin southbound
C14_Witness ==
    /\ CpaAsked
    /\ call.os_position = <<0, 1000>> /\ call.ts_position = <<0, 0>>
    /\ call.os_velocity = <<0, 10>> /\ call.ts_velocity = <<0, -10>>
    /\ ArgOpening
    /\ result.tcpa.n < 0
(***************************************************************************)
(* Properties of the geometry functions                                    *)
(***************************************************************************)
\* the float lies in [lo, hi), lo and hi in tenths of a degree
InHalfOpen(a, lo, hi) == ~FloatNegative(FloatAdd(a, -lo)) /\ a.deg < hi

\* C15: normalize_angle(a) lies in [-180, 180) and normalize_angle_360(a) in
\* [0, 360) for every angle a, negative and multi-revolution ones included;
\* the result is congruent to a modulo 360 (to within the float residue);
\* either function applied to its own result returns it unchanged.
C15_NormalizeAngles ==
    /\ call.op = "normalize_angle" =>
        /\ InHalfOpen(result, -1800, 1800)
        /\ (result.deg - call.angle.deg) % 3600 = 0
        /\ prev # NoCall => result = call.angle
    /\ call.op = "normalize_angle_360" =>
        /\ InHalfOpen(result, 0, 3600)
        /\ (result.deg - call.angle.deg) % 3600 = 0
        /\ prev # NoCall => result = call.angle
\* the part of C15 that holds: calls whose angle carries no residue, and
\* re-applications to the results of such calls
C15_WithoutResidue ==
    (/\ call.op \in {"normalize_angle", "normalize_angle_360"}
     /\ call.angle.eps = 0
     /\ prev # NoCall => prev.angle.eps = 0)
        => C15_NormalizeAngles

\* normalize_angle_360 of the negative angle next to 0 is 360
C15_Residue ==
    /\ call.op = "normalize_angle_360"
    /\ call.angle = Float(0, -1)
    /\ result = Exact(3600)
\* C16: for a heading h in [0, 360) and a speed s > 0,
\* velocity_to_heading_speed(heading_to_velocity(h, s)) is (h, s), and the
\* heading returned lies in [0, 360): never 360, never negative.
C16_RoundTrip ==
    call.op = "velocity_to_heading_speed" =>
        /\ 0 <= result.value[1] /\ result.value[1] < 3600
        /\ (prev # NoCall /\ prev.speed > 0
                /\ 0 <= prev.heading /\ prev.heading < 3600) =>
            /\ result.returned
            /\ result.value[1] = prev.heading
            /\ RootEq(result.value[2], prev.speed)

\* heading 270 at 8 m/s, which arctan2 gives back as -90
C16_Witness ==
    /\ call.op = "velocity_to_heading_speed"
    /\ prev # NoCall /\ prev.heading = 2700 /\ prev.speed = 8
    /\ call.velocity = <<-8, 0>>
    /\ result.value[1] = 2700
    /\ RootEq(result.value[2], 8)
BearingRateAsked == call.op = "calculate_bearing_rate"

\* The bearing of TS from OS, clockwise from North, is atan2(dx, dy); at
\* constant velocities its derivative is (dy * dvx - dx * dvy) / |r|^2, so
\* the bearing is increasing exactly when dy * dvx - dx * dvy > 0.
ArgBearingTrend == ArgDy * ArgVx - ArgDx * ArgVy

\* C17: for ships that are not coincident, calculate_bearing_rate is positive
\* exactly when the bearing of TS from OS, clockwise from North, is
\* increasing (TS due North with relative velocity due East, for one), and
\* negative exactly when it is decreasing.
C17_BearingRateSign ==
    (BearingRateAsked /\ ArgRangeSq >= 1) =>
        /\ result.n > 0 <=> ArgBearingTrend > 0
        /\ result.n < 0 <=> ArgBearingTrend < 0
        /\ (ArgDx = 0 /\ ArgDy > 0 /\ ArgVx > 0 /\ ArgVy = 0) => result.n > 0

\* TS 1000 m due North of an OS at rest, making 10 m/s due East: its bearing
\* by calculate_relative_bearing is 0 now and 45 degrees after 100 s, and
\* the rate returned is negative
C17_Example ==
    /\ BearingRateAsked
    /\ ArgDx = 0 /\ ArgDy = 1000
    /\ call.os_velocity = <<0, 0>> /\ call.ts_velocity = <<10, 0>>
    /\ calculate_relative_bearing(call.os_position, 0, call.ts_position) = 0
    /\ calculate_relative_bearing(
           call.os_position, 0,
           <<call.ts_position[1] + 100 * call.ts_velocity[1],
             call.ts_position[2] + 100 * call.ts_velocity[2]>>) = 450
    /\ result.n < 0

\* C18: for coincident ships (squared range below the epsilon)
\* calculate_bearing_rate returns exactly 0 whatever the velocities; for any
\* other range it divides by the squared range, which is not zero.
C18_CoincidentSentinel ==
    BearingRateAsked =>
        /\ ArgRangeSq < 1 => (result.n = 0 /\ result.d > 0)
        /\ ArgRangeSq >= 1 => (result.d = ArgRangeSq /\ result.d # 0)

\* coincident ships with different velocities
C18_Witness ==
    /\ BearingRateAsked
    /\ ArgRangeSq = 0
    /\ ~ArgNoRelativeMotion
    /\ result.n = 0
\* C19: a call with an invalid argument, such as heading_to_velocity with a
\* negative speed, fails with InvalidInput and does not return a result.
C19_InvalidInputFails ==
    (call.op = "heading_to_velocity" /\ call.speed < 0) => ~result.returned
(***************************************************************************)
(* Frame and determinism                                                   *)
(***************************************************************************)
\* a remembered call is being made again, after it had returned
Repeated ==
    /\ remembered # NoCall
    /\ remembered.later
    /\ call = remembered.call

C21_ConstantBearing ==
    Assessed =>
        /\ (ArgRangeSq >= 1 /\ ~ArgNoRelativeMotion /\ ArgRCrossV = 0) =>
            /\ RootEq(result.dcpa, 0)
            /\ result.bearing_rate.n = 0
        /\ result.bearing_rate.n = 0
                <=> (ArgNoRelativeMotion \/ RootEq(result.dcpa, 0))

\* test_constant_bearing: TS 1000 m dead ahead on the reciprocal course
C21_Witness ==
    /\ Assessed
    /\ ArgDx = 0 /\ ArgDy = 1000
    /\ call.os_velocity = <<0, 10>> /\ call.ts_velocity = <<0, -10>>
    /\ RootEq(result.dcpa, 0)
    /\ result.bearing_rate.n = 0

\* a target that passes clear has a bearing rate other than 0
C21_WitnessMiss ==
    /\ Assessed
    /\ ~ArgNoRelativeMotion
    /\ RootGt(result.dcpa, 0)
    /\ result.bearing_rate.n # 0
\* sqrt(n / d) <= sqrt(m) for an integer m >= 0, without forming m * d
RootWithin(x, m) ==
    \/ (x.n \div x.d) < m
    \/ (x.n \div x.d) = m /\ (x.n % x.d) = 0

\* sqrt(n / d) = sqrt(m)
RootIs(x, m) == (x.n \div x.d) = m /\ (x.n % x.d) = 0

\* C22: the dcpa of calculate_cpa_tcpa, and the one assess reports, satisfies
\* 0 <= dcpa <= distance between the ships, with equality when the relative
\* velocity is zero or perpendicular to the relative position (r.v = 0);
\* also when tcpa is negative.
C22_DcpaWithinDistance ==
    (CpaAsked \/ Assessed) =>
        /\ result.dcpa.n >= 0 /\ result.dcpa.d > 0
        /\ RootWithin(result.dcpa, ArgRangeSq)
        /\ (ArgNoRelativeMotion \/ ArgRDotV = 0) => RootIs(result.dcpa, ArgRangeSq)
        /\ Assessed =>
            /\ RootIs(result.distance, ArgRangeSq)
            /\ result.distance.d = 1
            /\ RootWithin(result.dcpa, result.distance.n)

\* test_past_cpa moved abeam: an opening target (tcpa < 0) whose dcpa is
\* above 0 and below the distance
C22_Witness ==
    /\ Assessed
    /\ ArgOpening
    /\ result.tcpa.n < 0
    /\ RootGt(result.dcpa, 0)
    /\ ~RootIs(result.dcpa, ArgRangeSq)
    /\ RootWithin(result.dcpa, ArgRangeSq)

\* relative velocity perpendicular to the relative position: dcpa = distance
C22_WitnessAbeam ==
    /\ CpaAsked
    /\ ~ArgNoRelativeMotion /\ ArgRDotV = 0 /\ ArgRangeSq > 0
    /\ RootIs(result.dcpa, ArgRangeSq)
\* the observation after a tick, with the one before it in prev
Ticked == env # NoCall /\ call.op = "assess" /\ prev # NoCall

\* C23: after both ships have advanced by dt along their velocities, assess
\* returns the same dcpa and a tcpa smaller by exactly dt; so from tick to
\* tick the risk level does not decrease while tcpa >= 0, and it is SAFE at
\* every tick once tcpa is negative.
C23_TickToTick ==
    /\ Ticked =>
        /\ SameRatio(result.dcpa.n, result.dcpa.d,
                     prev.result.dcpa.n, prev.result.dcpa.d)
        /\ result.tcpa.inf <=> prev.result.tcpa.inf
        /\ ~result.tcpa.inf =>
              result.tcpa.n * prev.result.tcpa.d
                  = (prev.result.tcpa.n - prev.dt * prev.result.tcpa.d)
                        * result.tcpa.d
        /\ (result.tcpa.inf \/ result.tcpa.n >= 0) =>
              Ordinal(result.risk_level) >= Ordinal(prev.result.risk_level)
        /\ (~prev.result.tcpa.inf /\ prev.result.tcpa.n < 0) =>
              /\ ~result.tcpa.inf /\ result.tcpa.n < 0
              /\ result.risk_level = "SAFE"
    /\ (env # NoCall /\ call.op = "assess"
            /\ ~result.tcpa.inf /\ result.tcpa.n < 0) =>
          result.risk_level = "SAFE"

\* a tick on which tcpa falls below 300 s and the level rises to CRITICAL
C23_Witness ==
    /\ Ticked
    /\ prev.result.risk_level = "HIGH"
    /\ result.risk_level = "CRITICAL"
    /\ result.tcpa.n * prev.result.tcpa.d
          = (prev.result.tcpa.n - prev.result.tcpa.d) * result.tcpa.d
    /\ result.dcpa = prev.result.dcpa

\* a tick after the closest approach: tcpa negative before and after, SAFE
C23_WitnessPast ==
    /\ Ticked
    /\ prev.result.tcpa.n < 0
    /\ result.tcpa.n < prev.result.tcpa.n
    /\ result.risk_level = "SAFE"
====
